---- MODULE Spec2Model ----
(***************************************************************************)
(* Model of packages/runtime/src/get-mesh.ts: the source registry of       *)
(* getMesh (Promise.allSettled over the source handlers), the in-context   *)
(* SDK callable, the memoized envelop pipeline behind meshExecute and      *)
(* meshSubscribe, and the SDK requester.                                   *)
(***************************************************************************)
EXTENDS Integers, Sequences, FiniteSets, TLC

\* ---------------------------------------------------------------- bounds
NumSources == 3
MaxFieldNodes == 2
MaxSelections == 2
MaxCalls == 2
NumGateways == 2
MaxContexts == 2
MaxInflight == 2
MaxStream == 2
MaxUses == 1

Sources == 1..NumSources
Gateways == 1..NumGateways

\* ----------------------------------------------------------------- state
VARIABLES
    transformsCfg,   \* apiSource.transforms of each configured source
    handler,         \* state of each sources.map(async ...) callback
    rawSources,      \* const rawSources: RawSourceOutput[]
    failed,          \* let failed = false
    pc,              \* position of getMesh
    thrown,          \* errors getMesh has rejected with
    mergerCalls,     \* arguments of every merger.getUnifiedSchema call
    unifiedSchema,   \* what the merger returned
    meshContext,     \* entries of meshContext keyed by source name
    instance,        \* TRUE once getMesh has returned a MeshInstance
    sdkCall,         \* the latest in-context callable invocation and its outcome
    delegateToSchemaCalls,       \* number of delegateToSchema calls issued
    batchDelegateToSchemaCalls,  \* number of batchDelegateToSchema calls issued
    contexts,        \* the context objects callers have created, by identity
    envelopedCache,  \* the two memoize1 caches of memoizedGetEnvelopedFactory
    calls,           \* the meshExecute / meshSubscribe calls in progress
    operationTypeCache,  \* the memoize1 cache of memoizedGetOperationType
    request,         \* what the requester handed back last, if not yet consumed
    published        \* the topics published on the gateway's pubsub

loadVars == <<transformsCfg, handler, rawSources, failed, pc, thrown,
              mergerCalls, unifiedSchema, meshContext, instance>>

callVars == <<sdkCall, delegateToSchemaCalls, batchDelegateToSchemaCalls>>

execVars == <<contexts, envelopedCache, calls>>
requestVars == <<operationTypeCache, request>>
pubsubVars == <<published>>

vars == <<loadVars, callVars, execVars, requestVars, pubsubVars>>

\* ------------------------------------------------- in-context SDK values
\* a JavaScript value as far as typeof and truthiness see it
Undefined == [form |-> "undefined", text |-> ""]
Str(t) == [form |-> "string", text |-> t]
Obj(t) == [form |-> t, text |-> ""]

\* ToBoolean of a value: undefined and the empty string are falsy
Truthy(v) == ~(v.form = "undefined" \/ (v.form = "string" /\ v.text = ""))

\* the root fields of a source's transformed schema: the declared type is
\* its wrappers followed by the named type
RootFields ==
    { [operation |-> "query", rootType |-> "Query", fieldName |-> "user",
       type |-> <<"NonNull", "User">>],
      [operation |-> "query", rootType |-> "Query", fieldName |-> "count",
       type |-> <<"Int">>],
      [operation |-> "mutation", rootType |-> "Mutation", fieldName |-> "addUser",
       type |-> <<"List", "User">>],
      [operation |-> "subscription", rootType |-> "Subscription", fieldName |-> "tick",
       type |-> <<"NonNull", "String">>] }

\* rawSource.schema.getQueryType() / getMutationType() / getSubscriptionType()
\* of the source of that name: every source has a Query type, the first two
\* a Mutation type, the first a Subscription type
RootTypeExists(name, rootType) ==
    \/ rootType = "Query"
    \/ (rootType = "Mutation" /\ name <= 2)
    \/ (rootType = "Subscription" /\ name = 1)

\* a loop over root types that does not skip the ones a schema lacks
InContextSdkOfEveryRootType(name) == RootFields

\* rawSourceContext: for each rootType of rootTypes, if (rootType), one
\* callable per field of rootType.getFields()
InContextSdkOf(name) == { f \in RootFields : RootTypeExists(name, f.rootType) }

\* getNamedType: strips the list and non-null wrappers
getNamedType(type) == type[Len(type)]

\* isLeafType: scalars and enums
isLeafType(named) == named \in {"Int", "String"}

shouldHaveSelectionSet(f) == ~isLeafType(getNamedType(f.type))

\* fieldNode.selectionSet: null, or a selection set with some selections
NullSelectionSet == [kind |-> "null", selections |-> <<>>]
SelectionSetOf(n) == [kind |-> "SelectionSet", selections |-> [k \in 1..n |-> "id"]]
FieldNodes ==
    { [kind |-> "Field", selectionSet |-> ss] :
        ss \in {NullSelectionSet} \cup { SelectionSetOf(n) : n \in 0..MaxSelections } }

SeqsUpTo(S, n) == UNION { [1..k -> S] : k \in 0..n }

\* the info argument: omitted, or the caller's GraphQLResolveInfo
InfoParams ==
    {[given |-> FALSE, fieldNodes |-> <<>>]}
    \cup { [given |-> TRUE, fieldNodes |-> fn] : fn \in SeqsUpTo(FieldNodes, MaxFieldNodes) }

SelectionSetParams ==
    { Undefined, Str(""), Str("{ id }"), Obj("DocumentNode"),
      Obj("SelectionSetNode"), Obj("function") }
KeyParams == { Undefined, Str(""), Str("a") }
FunctionParams == { Undefined, Obj("function") }
ArgsParams == { Undefined, Obj("args") }

CallParams ==
    [ info : InfoParams, selectionSet : SelectionSetParams, key : KeyParams,
      argsFromKeys : FunctionParams, valuesFromResults : FunctionParams,
      args : ArgsParams ]

\* the default value of the info parameter
SyntheticInfo(f) ==
    [ synthetic |-> TRUE, fieldName |-> f.fieldName,
      returnType |-> getNamedType(f.type), parentType |-> f.rootType,
      fieldNodes |-> <<>> ]

\* info as the body of the callable sees it
InfoOf(f, p) ==
    IF p.info.given
    THEN [ synthetic |-> FALSE, fieldName |-> "callerField",
           returnType |-> "CallerType", parentType |-> "CallerParent",
           fieldNodes |-> p.info.fieldNodes ]
    ELSE SyntheticInfo(f)

RECURSIVE SumSelections(_, _)
SumSelections(fieldNodes, k) ==
    IF k > Len(fieldNodes) THEN 0
    ELSE (IF fieldNodes[k].selectionSet.kind # "null"
          THEN Len(fieldNodes[k].selectionSet.selections) ELSE 0)
         + SumSelections(fieldNodes, k + 1)

\* a count of the field nodes that have a selection set, empty or not
selectionSetCount(info) ==
    Cardinality({ k \in 1..Len(info.fieldNodes) :
                    info.fieldNodes[k].selectionSet.kind # "null" })

\* let selectionCount = 0; for (const fieldNode of info.fieldNodes) ...
selectionCount(info) == SumSelections(info.fieldNodes, 1)

TypenameSelectionSet == [kind |-> "SelectionSet", selections |-> <<"__typename">>]

\* a patch that keeps the first field node only
PatchedInfoOfFirstNode(info) ==
    [ info EXCEPT !.fieldNodes =
        << IF Len(info.fieldNodes) > 0
           THEN [info.fieldNodes[1] EXCEPT !.selectionSet = TypenameSelectionSet]
           ELSE [kind |-> "undefined", selectionSet |-> TypenameSelectionSet] >> ]

\* { ...info, fieldNodes: [{ ...info.fieldNodes[0], selectionSet }, ...slice(1)] }
PatchedInfo(info) ==
    [ info EXCEPT !.fieldNodes =
        << IF Len(info.fieldNodes) > 0
           THEN [info.fieldNodes[1] EXCEPT !.selectionSet = TypenameSelectionSet]
           ELSE [kind |-> "undefined", selectionSet |-> TypenameSelectionSet] >>
        \o SubSeq(info.fieldNodes, 2, Len(info.fieldNodes)) ]

Absent == [form |-> "absent", text |-> ""]

\* the override left out whenever a selectionSet is passed
HasReturnTypeOnlyWithoutSelectionSet(p) == ~Truthy(p.selectionSet)

\* if (typeof selectionSet !== 'function') commonDelegateOptions.returnType = ...
HasReturnType(p) == p.selectionSet.form # "function"

\* a test that does not look at the selections info already carries
ThrowsWithoutSelectionSet(f, p) ==
    /\ shouldHaveSelectionSet(f)
    /\ ~Truthy(p.selectionSet)

\* the missing-selectionSet test of the callable
ThrowsMissingSelectionSet(f, p) ==
    /\ shouldHaveSelectionSet(f)
    /\ selectionCount(InfoOf(f, p)) = 0
    /\ ~Truthy(p.selectionSet)

\* const commonDelegateOptions = { schema, rootValue, operation, fieldName,
\* context, transformedSchema, info } with returnType and the info patch
commonDelegateOptions(target, f, p) ==
    [ schema |-> target,
      operation |-> f.operation,
      fieldName |-> f.fieldName,
      hasReturnType |-> HasReturnType(p),
      returnType |-> IF HasReturnType(p) THEN f.type ELSE <<>>,
      info |-> IF shouldHaveSelectionSet(f) /\ selectionCount(InfoOf(f, p)) = 0
               THEN PatchedInfo(InfoOf(f, p)) ELSE InfoOf(f, p) ]

\* if (key && argsFromKeys)
UsesBatchDelegation(p) == Truthy(p.key) /\ Truthy(p.argsFromKeys)

\* new WrapQuery(path, selectionSetFactory, resultTransformer)
WrapQuery(f, p, resultTransformer) ==
    [ attached |-> TRUE, path |-> <<f.fieldName>>,
      selectionSetFactory |-> p.selectionSet, resultTransformer |-> resultTransformer ]
NoTransforms ==
    [ attached |-> FALSE, path |-> <<>>, selectionSetFactory |-> Undefined,
      resultTransformer |-> "none" ]

\* batch options whose WrapQuery transforms the result the way the single
\* delegation's does
batchDelegationOptionsTransformingResult(target, f, p) ==
    [ common |-> commonDelegateOptions(target, f, p),
      args |-> Absent,
      key |-> p.key, argsFromKeys |-> p.argsFromKeys,
      valuesFromResults |-> p.valuesFromResults,
      transforms |-> IF Truthy(p.selectionSet)
                     THEN WrapQuery(f, p, IF Truthy(p.valuesFromResults)
                                          THEN "valuesFromResults" ELSE "identical")
                     ELSE NoTransforms ]

\* batchDelegationOptions and the optional WrapQuery with identical
batchDelegationOptions(target, f, p) ==
    [ common |-> commonDelegateOptions(target, f, p),
      args |-> Absent,
      key |-> p.key, argsFromKeys |-> p.argsFromKeys,
      valuesFromResults |-> p.valuesFromResults,
      transforms |-> IF Truthy(p.selectionSet)
                     THEN WrapQuery(f, p, "identical") ELSE NoTransforms ]

\* regularDelegateOptions and the optional WrapQuery with
\* valuesFromResults || identical
regularDelegateOptions(target, f, p) ==
    [ common |-> commonDelegateOptions(target, f, p),
      args |-> p.args,
      key |-> Absent, argsFromKeys |-> Absent, valuesFromResults |-> Absent,
      transforms |-> IF Truthy(p.selectionSet)
                     THEN WrapQuery(f, p, IF Truthy(p.valuesFromResults)
                                          THEN "valuesFromResults" ELSE "identical")
                     ELSE NoTransforms ]

\* a patch written into the caller's own info object
CallerObjectsAfterPatchInPlace(f, p) ==
    [ info |-> IF /\ p.info.given
                  /\ shouldHaveSelectionSet(f)
                  /\ selectionCount(InfoOf(f, p)) = 0
                  /\ Truthy(p.selectionSet)
               THEN [p.info EXCEPT !.fieldNodes = PatchedInfo(InfoOf(f, p)).fieldNodes]
               ELSE p.info,
      args |-> p.args ]

\* the caller's info and args objects as the callable leaves them: it reads
\* them, and the patched info is a spread copy
CallerObjectsAfter(f, p) == [ info |-> p.info, args |-> p.args ]

NoMessage == [source |-> 0, rootType |-> "", fieldName |-> ""]
NoCall == [made |-> FALSE]

CallIdle ==
    /\ sdkCall = NoCall
    /\ delegateToSchemaCalls = 0
    /\ batchDelegateToSchemaCalls = 0

\* meshContext[name][rootType][fieldName]({ root, args, context, info,
\* selectionSet, key, argsFromKeys, valuesFromResults })
InContextSdkCall(entry, f, p) ==
    /\ instance
    /\ ~sdkCall.made
    /\ delegateToSchemaCalls + batchDelegateToSchemaCalls < MaxCalls
    /\ IF ThrowsMissingSelectionSet(f, p)
       THEN /\ sdkCall' = [ made |-> TRUE, source |-> entry.name, field |-> f,
                            params |-> p, after |-> CallerObjectsAfter(f, p),
                            threw |-> TRUE,
                            message |-> [source |-> entry.name,
                                         rootType |-> f.rootType,
                                         fieldName |-> f.fieldName],
                            fn |-> "none" ]
            /\ UNCHANGED <<delegateToSchemaCalls, batchDelegateToSchemaCalls>>
       ELSE IF UsesBatchDelegation(p)
       THEN /\ sdkCall' = [ made |-> TRUE, source |-> entry.name, field |-> f,
                            params |-> p, after |-> CallerObjectsAfter(f, p),
                            threw |-> FALSE, message |-> NoMessage,
                            fn |-> "batchDelegateToSchema",
                            options |-> batchDelegationOptions(entry.target, f, p) ]
            /\ batchDelegateToSchemaCalls' = batchDelegateToSchemaCalls + 1
            /\ UNCHANGED delegateToSchemaCalls
       ELSE /\ sdkCall' = [ made |-> TRUE, source |-> entry.name, field |-> f,
                            params |-> p, after |-> CallerObjectsAfter(f, p),
                            threw |-> FALSE, message |-> NoMessage,
                            fn |-> "delegateToSchema",
                            options |-> regularDelegateOptions(entry.target, f, p) ]
            /\ delegateToSchemaCalls' = delegateToSchemaCalls + 1
            /\ UNCHANGED batchDelegateToSchemaCalls
    /\ UNCHANGED <<pubsubVars, loadVars, execVars, requestVars>>

\* the callable returns (or its throw unwinds) and its frame is gone
InContextSdkReturn ==
    /\ sdkCall.made
    /\ sdkCall' = NoCall
    /\ UNCHANGED <<pubsubVars, loadVars, execVars, requestVars, delegateToSchemaCalls, batchDelegateToSchemaCalls>>

\* --------------------------------------------------- execution pipeline
\* context objects are told apart by identity; two of them may hold the
\* same value
ContextIds == 1..MaxContexts
Free == "free"

\* const EMPTY_CONTEXT_VALUE: any = {} of gateway g, an object of its own
EMPTY_CONTEXT_VALUE(g) == MaxContexts + g
ContextRefs == ContextIds \cup { EMPTY_CONTEXT_VALUE(g) : g \in Gateways }

\* the value a context object holds
ValueOf(c) == IF c \in ContextIds THEN contexts[c] ELSE "{}"

NoPipeline == [plugins |-> 0, initialContext |-> 0, serial |-> 0]
NoFactory == [built |-> FALSE, byContext |-> [c \in ContextRefs |-> NoPipeline]]
Idle == [stage |-> "idle"]

NoRequest == [stage |-> "idle"]

ExecIdle ==
    /\ contexts = [c \in ContextIds |-> Free]
    /\ envelopedCache = [g \in Gateways |-> NoFactory]
    /\ calls = [k \in 1..MaxInflight |-> Idle]
    /\ operationTypeCache = <<>>
    /\ request = NoRequest

\* one factory for every plugin list: the first gateway's
getEnvelopedFactoryOfAnyPlugins(g) == envelopedCache[1]

\* memoize1cache.get(plugins) of getEnvelopedFactory: keyed by the identity
\* of the plugins array, which every getMesh call creates anew
getEnvelopedFactory(g) == envelopedCache[g]

\* a lookup that finds the entry of any context holding an equal value
CachedPipelineByValue(g, c) ==
    LET hits == { c2 \in ContextRefs :
                    /\ envelopedCache[g].byContext[c2] # NoPipeline
                    /\ ValueOf(c2) = ValueOf(c) }
    IN IF hits = {} THEN NoPipeline
       ELSE envelopedCache[g].byContext[CHOOSE c2 \in hits : TRUE]

\* memoize1cache.get(initialContext) of getEnvelopedByContext: a WeakMap
\* keyed by the identity of the context object
CachedPipeline(g, c) == getEnvelopedFactory(g).byContext[c]

\* a factory memoized on the plugin list alone: whichever pipeline the
\* gateway built first is returned for every context
getEnvelopedOncePerGateway(g, c) ==
    LET built == { c2 \in ContextRefs : envelopedCache[g].byContext[c2] # NoPipeline }
    IN IF envelopedCache[g].byContext[c] # NoPipeline
       THEN envelopedCache[g].byContext[c]
       ELSE IF built # {}
       THEN [envelopedCache[g].byContext[CHOOSE c2 \in built : TRUE] EXCEPT !.serial = 1]
       ELSE [plugins |-> g, initialContext |-> c, serial |-> 1]

\* getEnveloped(initialContext): the pipeline bound to plugins and context
getEnvelopedByContext(g, c) ==
    IF CachedPipeline(g, c) # NoPipeline
    THEN CachedPipeline(g, c)
    ELSE [plugins |-> g, initialContext |-> c, serial |-> 1]

\* memoizedGetEnvelopedFactory(plugins)(contextValue) with both caches
\* populated on a miss
memoizedGetEnvelopedFactory(g, c) ==
    [envelopedCache EXCEPT ![g] =
        [built |-> TRUE,
         byContext |-> [@.byContext EXCEPT ![c] = getEnvelopedByContext(g, c)]]]

\* contextFactory() of a bound pipeline: the initial context it was bound
\* to, extended by useExtendContext(() => meshContext)
contextFactory(pipeline) ==
    [ initialContext |-> pipeline.initialContext,
      value |-> ValueOf(pipeline.initialContext),
      meshContext |-> pipeline.plugins ]

\* what a caller passes besides the context: documentOrSDL, variableValues,
\* rootValue, operationName, each of the last three possibly left out
OmittedInput ==
    [ documentOrSDL |-> Obj("DocumentNode"), variableValues |-> Undefined,
      rootValue |-> Undefined, operationName |-> Undefined ]
ExecuteInputs ==
    { OmittedInput,
      [ documentOrSDL |-> Str("{ me }"), variableValues |-> Obj("variables"),
        rootValue |-> Obj("root"), operationName |-> Str("Me") ] }

\* parse(documentOrSDL) of the pipeline: the document node of the text
parse(sdl) == [form |-> "DocumentNode", text |-> sdl.text]

\* a parameter default: taken when the argument is undefined
DefaultTo(v, default) == IF v.form = "undefined" THEN default ELSE v

\* the object execute / subscribe of the pipeline is called with, apart
\* from contextValue and schema
PipelineArgs(input) ==
    [ document |-> IF input.documentOrSDL.form = "string"
                   THEN parse(input.documentOrSDL) ELSE input.documentOrSDL,
      rootValue |-> DefaultTo(input.rootValue, Obj("EMPTY_ROOT_VALUE")),
      variableValues |-> DefaultTo(input.variableValues, Obj("EMPTY_VARIABLES_VALUE")),
      operationName |-> input.operationName ]

\* the caller creates a context object
NewContext(v) ==
    /\ \E c \in ContextIds :
          /\ contexts[c] = Free
          /\ \A b \in ContextIds : b < c => contexts[b] # Free
          /\ contexts' = [contexts EXCEPT ![c] = v]
    /\ UNCHANGED <<pubsubVars, loadVars, callVars, requestVars, envelopedCache, calls>>

FreeSlot(k) ==
    /\ calls[k] = Idle
    /\ \A j \in 1..MaxInflight : j < k => calls[j] # Idle

\* the synchronous head of meshExecute / meshSubscribe, up to
\* await contextFactory()
StartCall(via, fn, g, c, input) ==
    /\ instance
    /\ \E k \in 1..MaxInflight :
          /\ FreeSlot(k)
          /\ calls' = [calls EXCEPT ![k] =
                [ stage |-> "contextFactory", via |-> via, fn |-> fn, gateway |-> g,
                  contextValue |-> c, input |-> input,
                  pipeline |-> getEnvelopedByContext(g, c) ]]
    /\ envelopedCache' = memoizedGetEnvelopedFactory(g, c)

\* meshExecute(document, variables, contextValue = EMPTY_CONTEXT_VALUE, ...)
\* called by a user of the gateway
meshExecute(g, c, input) ==
    /\ StartCall("direct", "execute", g, c, input)
    /\ UNCHANGED <<pubsubVars, loadVars, callVars, requestVars, contexts>>

\* meshSubscribe(document, variables, contextValue = EMPTY_CONTEXT_VALUE, ...)
\* called by a user of the gateway
meshSubscribe(g, c, input) ==
    /\ StartCall("direct", "subscribe", g, c, input)
    /\ UNCHANGED <<pubsubVars, loadVars, callVars, requestVars, contexts>>

\* await contextFactory() resolves and the pipeline's execute / subscribe
\* is called with the built context and the gateway's unified schema
CallPipeline(k) ==
    /\ calls[k].stage = "contextFactory"
    /\ calls' = [calls EXCEPT ![k] =
          [ stage |-> "running", via |-> @.via, fn |-> @.fn, gateway |-> @.gateway,
            contextValue |-> @.contextValue, input |-> @.input,
            pipeline |-> @.pipeline,
            args |-> [ contextValue |-> contextFactory(@.pipeline),
                       schema |-> @.gateway,
                       rest |-> PipelineArgs(@.input) ] ]]
    /\ UNCHANGED <<pubsubVars, loadVars, callVars, requestVars, contexts, envelopedCache>>

\* the pipeline's execute / subscribe settles and the call returns
CallSettles(k) ==
    /\ calls[k].stage = "running"
    /\ calls[k].via = "direct"
    /\ calls' = [calls EXCEPT ![k] = Idle]
    /\ UNCHANGED <<pubsubVars, loadVars, callVars, requestVars, contexts, envelopedCache>>

\* the context objects a caller can pass: one it created, or none
PassableContexts(g) ==
    { c \in ContextIds : contexts[c] # Free } \cup { EMPTY_CONTEXT_VALUE(g) }

\* ------------------------------------------------------ requester adapter
\* the documents callers hold: each is the list of the operations it defines
Documents ==
    << <<"query">>, <<"subscription">>, <<"mutation">>, <<>>,
       <<"query", "subscription">> >>
DocumentIds == 1..Len(Documents)

\* the document objects themselves, told apart by what they print as
DocumentNodeOf(d) ==
    [ form |-> "DocumentNode",
      text |-> <<"query Q", "subscription S", "mutation M", "# none",
                 "query Q subscription S">>[d] ]
DocumentIdOf(node) == CHOOSE d \in DocumentIds : DocumentNodeOf(d) = node

\* meshExecute(document, variables, { ...globalContext, ...contextValue }):
\* rootValue and operationName are left out
RequesterInput(d) ==
    [ documentOrSDL |-> DocumentNodeOf(d), variableValues |-> Obj("variables"),
      rootValue |-> Undefined, operationName |-> Undefined ]

\* getOperationAST(document, undefined): the only operation, else null
getOperationAST(d) ==
    IF Len(Documents[d]) = 1 THEN Documents[d][1] ELSE "null"

\* an ExecutionResult, or undefined
NoErrors == [present |-> FALSE, list |-> <<>>]
ErrorLists == { NoErrors, [present |-> TRUE, list |-> <<>>],
                [present |-> TRUE, list |-> <<"e1">>],
                [present |-> TRUE, list |-> <<"e1", "e2">>] }
Results ==
    { [kind |-> "ExecutionResult", errors |-> e, data |-> d] :
         e \in ErrorLists, d \in {"null", "d1"} }
    \cup { [kind |-> "undefined", errors |-> NoErrors, data |-> "undefined"] }

\* a collapse that lets the data of a partial result through
CollapsePreferringData(result) ==
    IF result.data = "d1"
    THEN [kind |-> "value", value |-> result.data]
    ELSE IF Len(result.errors.list) > 0
    THEN [kind |-> "AggregateError", errors |-> result.errors.list]
    ELSE [kind |-> "value", value |-> result.data]

\* if (result?.errors?.length) return new AggregateError(result.errors);
\* return result?.data;
Collapse(result) ==
    IF Len(result.errors.list) > 0
    THEN [kind |-> "AggregateError", errors |-> result.errors.list]
    ELSE [kind |-> "value", value |-> result.data]

\* { ...globalContext, ...contextValue }: the override wins on a conflict
GlobalContext == "user=ann"
MergedContext(override) == IF override = "{}" THEN GlobalContext ELSE override

\* a memoization that stores the failed lookup under the document
RequesterRejectsCachingFailure(d) ==
    /\ instance
    /\ request.stage \in {"idle", "awaiting"}
    /\ d \notin DOMAIN operationTypeCache
    /\ getOperationAST(d) = "null"
    /\ request' = [ stage |-> "rejected", document |-> d,
                    error |-> "Must provide document with a valid operation" ]
    /\ operationTypeCache' =
          [x \in (DOMAIN operationTypeCache) \cup {d} |->
              IF x = d THEN "null" ELSE operationTypeCache[x]]
    /\ UNCHANGED <<pubsubVars, loadVars, callVars, execVars>>

\* memoizedGetOperationType(document) finds no operation and throws: the
\* async requester rejects, nothing is cached and nothing is called
RequesterRejects(d) ==
    /\ instance
    /\ request.stage \in {"idle", "awaiting"}
    /\ d \notin DOMAIN operationTypeCache
    /\ getOperationAST(d) = "null"
    /\ request' = [ stage |-> "rejected", document |-> d,
                    error |-> "Must provide document with a valid operation" ]
    /\ UNCHANGED <<pubsubVars, loadVars, callVars, execVars, operationTypeCache>>

\* a lookup that answers with whatever entry the cache holds
OperationTypeOfAnyEntry(d) ==
    IF DOMAIN operationTypeCache # {}
    THEN operationTypeCache[CHOOSE x \in DOMAIN operationTypeCache : TRUE]
    ELSE getOperationAST(d)

\* the operation kind of a document, from the cache or computed
OperationTypeOf(d) ==
    IF d \in DOMAIN operationTypeCache THEN operationTypeCache[d]
    ELSE getOperationAST(d)

\* a routing that sends everything but queries to meshSubscribe
RequesterFnQueriesOnly(d) ==
    IF OperationTypeOf(d) = "query" THEN "execute" ELSE "subscribe"

\* if (memoizedGetOperationType(document) === 'subscription') meshSubscribe
\* else meshExecute
RequesterFn(d) ==
    IF OperationTypeOf(d) = "subscription" THEN "subscribe" ELSE "execute"

\* meshSdkRequester(document, variables, contextValue) up to the await of
\* meshSubscribe / meshExecute, called with a fresh merged context object
meshSdkRequester(g, d, override) ==
    /\ request.stage \in {"idle", "awaiting"}
    /\ OperationTypeOf(d) # "null"
    /\ operationTypeCache' =
          [x \in (DOMAIN operationTypeCache) \cup {d} |-> 
              IF x = d THEN OperationTypeOf(d) ELSE operationTypeCache[x]]
    /\ \E c \in ContextIds :
          /\ contexts[c] = Free
          /\ \A b \in ContextIds : b < c => contexts[b] # Free
          /\ contexts' = [contexts EXCEPT ![c] = MergedContext(override)]
          /\ StartCall("requester", RequesterFn(d), g, c, RequesterInput(d))
    /\ request' = [ stage |-> "awaiting", document |-> d ]
    /\ UNCHANGED <<pubsubVars, loadVars, callVars>>

\* await meshExecute(...) resolves: the result is collapsed and returned
RequesterExecuteSettles(k, result) ==
    /\ request.stage \in {"idle", "awaiting"}
    /\ calls[k].stage = "running"
    /\ calls[k].via = "requester"
    /\ calls[k].fn = "execute"
    /\ calls' = [calls EXCEPT ![k] = Idle]
    /\ request' = [ stage |-> "returned", document |-> DocumentIdOf(calls[k].input.documentOrSDL),
                    fn |-> "execute", result |-> result,
                    returned |-> Collapse(result) ]
    /\ UNCHANGED <<pubsubVars, loadVars, callVars, contexts, envelopedCache, operationTypeCache>>

\* await meshSubscribe(...) resolves with a single result
RequesterSubscribeSettles(k, result) ==
    /\ request.stage \in {"idle", "awaiting"}
    /\ calls[k].stage = "running"
    /\ calls[k].via = "requester"
    /\ calls[k].fn = "subscribe"
    /\ calls' = [calls EXCEPT ![k] = Idle]
    /\ request' = [ stage |-> "returned", document |-> DocumentIdOf(calls[k].input.documentOrSDL),
                    fn |-> "subscribe", result |-> result,
                    returned |-> Collapse(result) ]
    /\ UNCHANGED <<pubsubVars, loadVars, callVars, contexts, envelopedCache, operationTypeCache>>

\* await meshSubscribe(...) resolves with an async iterable: the requester
\* returns mapAsyncIterator(result, ...)
RequesterSubscribeIterable(k) ==
    /\ request.stage \in {"idle", "awaiting"}
    /\ calls[k].stage = "running"
    /\ calls[k].via = "requester"
    /\ calls[k].fn = "subscribe"
    /\ calls' = [calls EXCEPT ![k] = Idle]
    /\ request' = [ stage |-> "iterating", document |-> DocumentIdOf(calls[k].input.documentOrSDL),
                    fn |-> "subscribe", upstream |-> <<>>, emitted |-> <<>>,
                    done |-> FALSE ]
    /\ UNCHANGED <<pubsubVars, loadVars, callVars, contexts, envelopedCache, operationTypeCache>>

\* a mapping that ends the sequence at an element with errors
IterableNextEndingOnErrors(result) ==
    /\ request.stage = "iterating"
    /\ ~request.done
    /\ Len(request.upstream) < MaxStream
    /\ request' = [request EXCEPT !.upstream = Append(@, result),
                                  !.emitted = Append(@, Collapse(result)),
                                  !.done = Len(result.errors.list) > 0]
    /\ UNCHANGED <<pubsubVars, loadVars, callVars, execVars, operationTypeCache>>

\* the consumer pulls: the upstream yields a result and the mapped
\* iterator emits the callback's value for it
IterableNext(result) ==
    /\ request.stage = "iterating"
    /\ ~request.done
    /\ Len(request.upstream) < MaxStream
    /\ request' = [request EXCEPT !.upstream = Append(@, result),
                                  !.emitted = Append(@, Collapse(result))]
    /\ UNCHANGED <<pubsubVars, loadVars, callVars, execVars, operationTypeCache>>

\* the upstream sequence ends, or the consumer stops iterating
IterableReturn ==
    /\ request.stage = "iterating"
    /\ ~request.done
    /\ request' = [request EXCEPT !.done = TRUE]
    /\ UNCHANGED <<pubsubVars, loadVars, callVars, execVars, operationTypeCache>>

\* the caller is done with what the requester gave it
RequesterDone ==
    /\ \/ request.stage \in {"returned", "rejected"}
       \/ (request.stage = "iterating" /\ request.done)
    /\ request' = NoRequest
    /\ UNCHANGED <<pubsubVars, loadVars, callVars, execVars, operationTypeCache>>

\* ------------------------------------------------------- source registry
TransformKinds == {"none", "bare", "wrap"}

\* groupTransforms(apiSource.transforms) followed by the test
\* !wrapTransforms?.length && noWrapTransforms?.length
AppliesBareTransforms(cfg) == cfg = "bare"

\* the record pushed on rawSources for source i
RawSourceOf(i) ==
    [ name       |-> i,
      schema     |-> IF AppliesBareTransforms(transformsCfg[i])
                      THEN "bareTransformed" ELSE "handlerSchema",
      transforms |-> IF AppliesBareTransforms(transformsCfg[i])
                      THEN "undefined" ELSE transformsCfg[i] ]

\* stitchingInfo.subschemaMap in iteration order: entry k is the subschema
\* config at position k, carrying the name the merger gave it
SubschemaMaps == UNION { [1..n -> Sources] : n \in 0..NumSources }

NoSchema == [stitchingInfo |-> FALSE, subschemaMap |-> <<>>, built |-> FALSE]

LoadInit ==
    /\ transformsCfg \in [Sources -> TransformKinds]
    /\ handler = [i \in Sources |-> "pending"]
    /\ rawSources = <<>>
    /\ failed = FALSE
    /\ pc = "allSettled"
    /\ thrown = <<>>
    /\ mergerCalls = <<>>
    /\ unifiedSchema = NoSchema
    /\ meshContext = {}
    /\ instance = FALSE
    /\ CallIdle
    /\ ExecIdle
    /\ published = <<>>

\* await apiSource.handler.getMeshSource() resolves and the try block
\* runs to its end: the record is pushed when the handler completes
HandlerFulfil(i) ==
    /\ pc = "allSettled"
    /\ handler[i] = "pending"
    /\ handler' = [handler EXCEPT ![i] = "fulfilled"]
    /\ rawSources' = Append(rawSources, RawSourceOf(i))
    /\ UNCHANGED <<pubsubVars, callVars, execVars, requestVars, transformsCfg, failed, pc, thrown, mergerCalls,
                   unifiedSchema, meshContext, instance>>

\* getMeshSource() rejects: catch logs and sets failed
HandlerReject(i) ==
    /\ pc = "allSettled"
    /\ handler[i] = "pending"
    /\ handler' = [handler EXCEPT ![i] = "caught"]
    /\ failed' = TRUE
    /\ UNCHANGED <<pubsubVars, callVars, execVars, requestVars, transformsCfg, rawSources, pc, thrown, mergerCalls,
                   unifiedSchema, meshContext, instance>>

\* getMeshSource() resolves but applySchemaTransforms throws inside the try
TransformThrow(i) ==
    /\ pc = "allSettled"
    /\ handler[i] = "pending"
    /\ AppliesBareTransforms(transformsCfg[i])
    /\ handler' = [handler EXCEPT ![i] = "caught"]
    /\ failed' = TRUE
    /\ UNCHANGED <<pubsubVars, callVars, execVars, requestVars, transformsCfg, rawSources, pc, thrown, mergerCalls,
                   unifiedSchema, meshContext, instance>>

AllSettled == \A i \in Sources : handler[i] # "pending"

\* the rejection of a failing callback not held back until all have settled
ThrowFailedEarly ==
    /\ pc = "allSettled"
    /\ failed
    /\ pc' = "rejected"
    /\ thrown' = Append(thrown, "SchemasCouldntBeGenerated")
    /\ UNCHANGED <<pubsubVars, callVars, execVars, requestVars, transformsCfg, handler, rawSources, failed, mergerCalls,
                   unifiedSchema, meshContext, instance>>

\* Promise.allSettled resumes getMesh; if (failed) throw new Error(...)
ThrowFailed ==
    /\ pc = "allSettled"
    /\ AllSettled
    /\ failed
    /\ pc' = "rejected"
    /\ thrown' = Append(thrown, "SchemasCouldntBeGenerated")
    /\ UNCHANGED <<pubsubVars, callVars, execVars, requestVars, transformsCfg, handler, rawSources, failed, mergerCalls,
                   unifiedSchema, meshContext, instance>>

\* the merger reached without the if (failed) test
GetUnifiedSchemaIgnoringFailed ==
    /\ pc = "allSettled"
    /\ AllSettled
    /\ mergerCalls' = Append(mergerCalls, rawSources)
    /\ \E st \in BOOLEAN, map \in SubschemaMaps :
          /\ (~st => map = <<>>)
          /\ unifiedSchema' = [stitchingInfo |-> st, subschemaMap |-> map,
                               built |-> TRUE]
    /\ pc' = "merged"
    /\ UNCHANGED <<pubsubVars, callVars, execVars, requestVars, transformsCfg, handler, rawSources, failed, thrown,
                   meshContext, instance>>

\* await merger.getUnifiedSchema({ rawSources, ... }) resolves
GetUnifiedSchema ==
    /\ pc = "allSettled"
    /\ AllSettled
    /\ ~failed
    /\ mergerCalls' = Append(mergerCalls, rawSources)
    /\ \E st \in BOOLEAN, map \in SubschemaMaps :
          /\ (~st => map = <<>>)
          /\ unifiedSchema' = [stitchingInfo |-> st, subschemaMap |-> map,
                               built |-> TRUE]
    /\ pc' = "merged"
    /\ UNCHANGED <<pubsubVars, callVars, execVars, requestVars, transformsCfg, handler, rawSources, failed, thrown,
                   meshContext, instance>>

\* merger.getUnifiedSchema rejects: the error propagates out of getMesh
GetUnifiedSchemaReject ==
    /\ pc = "allSettled"
    /\ AllSettled
    /\ ~failed
    /\ mergerCalls' = Append(mergerCalls, rawSources)
    /\ thrown' = Append(thrown, "MergeError")
    /\ pc' = "rejected"
    /\ UNCHANGED <<pubsubVars, callVars, execVars, requestVars, transformsCfg, handler, rawSources, failed,
                   unifiedSchema, meshContext, instance>>

\* for (const [subschemaConfigName, subschema] of subschemaMap): the
\* position at which the loop breaks, 0 when it runs to the end
MatchingSubschema(map, name) ==
    IF \E k \in 1..Len(map) : map[k] = name
    THEN CHOOSE k \in 1..Len(map) :
            /\ map[k] = name
            /\ \A j \in 1..(k - 1) : map[j] # name
    ELSE 0

\* rawSourceSubSchemaConfig of a raw source: let-declared without a value
\* and left so when no entry of the map carries the name
DelegationTarget(name) ==
    IF unifiedSchema.stitchingInfo
    THEN IF MatchingSubschema(unifiedSchema.subschemaMap, name) # 0
         THEN [kind |-> "subschema", name |-> name,
               entry |-> MatchingSubschema(unifiedSchema.subschemaMap, name)]
         ELSE [kind |-> "undefined", name |-> name, entry |-> 0]
    ELSE [kind |-> "rawSource", name |-> name, entry |-> 0]

\* Promise.all(rawSources.map(...)): meshContext[rawSource.name] = ...,
\* then the MeshInstance is returned
BuildMeshContext ==
    /\ pc = "merged"
    /\ meshContext' = { [name |-> rawSources[k].name,
                         target |-> DelegationTarget(rawSources[k].name),
                         sdk |-> InContextSdkOf(rawSources[k].name)]
                        : k \in 1..Len(rawSources) }
    /\ instance' = TRUE
    /\ pc' = "returned"
    /\ UNCHANGED <<pubsubVars, callVars, execVars, requestVars, transformsCfg, handler, rawSources, failed, thrown,
                   mergerCalls, unifiedSchema>>

LoadNext ==
    \/ \E i \in Sources : HandlerFulfil(i)
    \/ \E i \in Sources : HandlerReject(i)
    \/ \E i \in Sources : TransformThrow(i)
    \/ ThrowFailed
    \/ GetUnifiedSchema
    \/ GetUnifiedSchemaReject
    \/ BuildMeshContext

Spec == LoadInit /\ [][LoadNext]_vars

\* a gateway that getMesh has returned, ready for in-context SDK calls
CallInit ==
    /\ transformsCfg = [i \in Sources |-> "none"]
    /\ handler = [i \in Sources |-> "fulfilled"]
    /\ rawSources = [i \in Sources |-> RawSourceOf(i)]
    /\ failed = FALSE
    /\ pc = "returned"
    /\ thrown = <<>>
    /\ mergerCalls = <<rawSources>>
    /\ unifiedSchema \in { [stitchingInfo |-> FALSE, subschemaMap |-> <<>>, built |-> TRUE],
                            [stitchingInfo |-> TRUE, subschemaMap |-> [i \in Sources |-> i],
                             built |-> TRUE] }
    /\ meshContext = { [name |-> i, target |-> DelegationTarget(i),
                        sdk |-> InContextSdkOf(i)] : i \in Sources }
    /\ instance = TRUE
    /\ CallIdle
    /\ ExecIdle
    /\ published = <<>>

\* some resolver invokes some callable of the in-context SDK
InContextSdk ==
    /\ ~sdkCall.made
    /\ delegateToSchemaCalls + batchDelegateToSchemaCalls < MaxCalls
    /\ \E entry \in meshContext : \E f \in entry.sdk, p \in CallParams :
          InContextSdkCall(entry, f, p)

CallNext ==
    \/ InContextSdk
    \/ InContextSdkReturn

SpecCall == CallInit /\ [][CallNext]_vars

\* one returned gateway taking execute and subscribe calls
ExecInit == CallInit

ExecNext ==
    \/ NewContext(GlobalContext)
    \/ \E g \in {1} : \E c \in PassableContexts(g), input \in ExecuteInputs :
          meshExecute(g, c, input)
    \/ \E g \in {1} : \E c \in PassableContexts(g), input \in ExecuteInputs :
          meshSubscribe(g, c, input)
    \/ \E k \in 1..MaxInflight : CallPipeline(k)
    \/ \E k \in 1..MaxInflight : CallSettles(k)

SpecExec == ExecInit /\ [][ExecNext]_vars

\* several gateways, each returned by a getMesh call of its own, taking
\* execute and subscribe calls from callers that share one context object
\* or leave the context out
GatewaysInit == CallInit

GatewaysNext ==
    \/ /\ contexts[1] = Free
       /\ NewContext(GlobalContext)
    \/ \E g \in Gateways : \E c \in PassableContexts(g) : meshExecute(g, c, OmittedInput)
    \/ \E g \in Gateways : \E c \in PassableContexts(g) : meshSubscribe(g, c, OmittedInput)
    \/ \E k \in 1..MaxInflight : CallPipeline(k)
    \/ \E k \in 1..MaxInflight : CallSettles(k)

SpecGateways == GatewaysInit /\ [][GatewaysNext]_vars

\* a returned gateway serving the requester of sdkRequesterFactory to a
\* caller that awaits each request before it makes the next
RequestInit == CallInit

RequestNext ==
    \/ /\ request.stage = "idle"
       /\ \E d \in DocumentIds : RequesterRejects(d)
    \/ /\ request.stage = "idle"
       /\ \A k \in 1..MaxInflight : calls[k] = Idle
       /\ \E g \in {1}, d \in DocumentIds, o \in {"{}", "user=bob"} :
             meshSdkRequester(g, d, o)
    \/ \E k \in 1..MaxInflight : CallPipeline(k)
    \/ \E k \in 1..MaxInflight, r \in Results : RequesterExecuteSettles(k, r)
    \/ \E k \in 1..MaxInflight, r \in Results : RequesterSubscribeSettles(k, r)
    \/ \E k \in 1..MaxInflight : RequesterSubscribeIterable(k)
    \/ \E r \in Results : IterableNext(r)
    \/ IterableReturn
    \/ RequesterDone

SpecRequest == RequestInit /\ [][RequestNext]_vars

\* destroy() { return pubsub.publish('destroy', undefined) }
Destroy ==
    /\ instance
    /\ published' = Append(published, "destroy")
    /\ UNCHANGED <<loadVars, callVars, execVars, requestVars>>

\* getMesh from the point where every handler has completed to the
\* returned instance, and the instance in use by a caller that lets each
\* operation finish before it starts the next. One source is configured with
\* bare transforms, one with wrap transforms, the others with none; the
\* handlers completed in configuration order or in the reverse of it.
GatewayInit ==
    /\ transformsCfg = [i \in Sources |->
                           IF i = 1 THEN "bare" ELSE IF i = 2 THEN "wrap" ELSE "none"]
    /\ handler = [i \in Sources |-> "fulfilled"]
    /\ rawSources \in { [i \in Sources |-> RawSourceOf(i)],
                         [i \in Sources |-> RawSourceOf(NumSources + 1 - i)] }
    /\ failed = FALSE
    /\ pc = "allSettled"
    /\ thrown = <<>>
    /\ mergerCalls = <<>>
    /\ unifiedSchema = NoSchema
    /\ meshContext = {}
    /\ instance = FALSE
    /\ CallIdle
    /\ ExecIdle
    /\ published = <<>>

\* what the gateway has been used for so far: delegations issued, context
\* objects created, pipelines built, topics published
GatewayUses ==
    delegateToSchemaCalls + batchDelegateToSchemaCalls
    + Cardinality({ c \in ContextIds : contexts[c] # Free })
    + Cardinality({ gc \in Gateways \X ContextRefs :
                      envelopedCache[gc[1]].byContext[gc[2]] # NoPipeline })
    + Len(published)

\* the arguments resolvers pass to the callables of this gateway
GatewayCallParams ==
    { [ info |-> [given |-> FALSE, fieldNodes |-> <<>>],
        selectionSet |-> ss,
        key |-> IF batch THEN Str("a") ELSE Undefined,
        argsFromKeys |-> IF batch THEN Obj("function") ELSE Undefined,
        valuesFromResults |-> Undefined,
        args |-> IF batch THEN Undefined ELSE Obj("args") ]
      : ss \in {Undefined, Str("{ id }")}, batch \in BOOLEAN }

\* the results the pipelines of this gateway settle with
GatewayResults ==
    { [kind |-> "ExecutionResult", errors |-> NoErrors, data |-> "d1"],
      [kind |-> "ExecutionResult", errors |-> [present |-> TRUE, list |-> <<"e1">>],
       data |-> "null"] }

GatewayNext ==
    \/ GetUnifiedSchema
    \/ GetUnifiedSchemaReject
    \/ BuildMeshContext
    \/ /\ instance
       /\ GatewayUses < MaxUses
       /\ ~sdkCall.made
       /\ \A k \in 1..MaxInflight : calls[k] = Idle
       /\ request.stage = "idle"
       /\ \/ \E entry \in meshContext : \E f \in entry.sdk, p \in GatewayCallParams :
                InContextSdkCall(entry, f, p)
          \/ NewContext(GlobalContext)
          \/ \E g \in {1} : \E c \in PassableContexts(g) : meshExecute(g, c, OmittedInput)
          \/ \E g \in {1} : \E c \in PassableContexts(g) : meshSubscribe(g, c, OmittedInput)
          \/ \E d \in DocumentIds : RequesterRejects(d)
          \/ \E g \in {1}, d \in DocumentIds : meshSdkRequester(g, d, "{}")
          \/ Destroy
    \/ InContextSdkReturn
    \/ \E k \in 1..MaxInflight : CallPipeline(k)
    \/ \E k \in 1..MaxInflight : CallSettles(k)
    \/ \E k \in 1..MaxInflight, r \in GatewayResults : RequesterExecuteSettles(k, r)
    \/ \E k \in 1..MaxInflight, r \in GatewayResults : RequesterSubscribeSettles(k, r)
    \/ \E k \in 1..MaxInflight : RequesterSubscribeIterable(k)
    \/ \E r \in GatewayResults : IterableNext(r)
    \/ IterableReturn
    \/ RequesterDone

SpecGateway == GatewayInit /\ [][GatewayNext]_vars

\* a returned gateway whose execute and subscribe (with the context left
\* out) and whose requester are called while earlier calls are still awaited: the synchronous head of a call
\* runs between the awaits of the others
SharedInit == CallInit

SharedNext ==
    \/ \E g \in {1} : meshExecute(g, EMPTY_CONTEXT_VALUE(g), OmittedInput)
    \/ \E g \in {1} : meshSubscribe(g, EMPTY_CONTEXT_VALUE(g), OmittedInput)
    \/ \E d \in DocumentIds : RequesterRejects(d)
    \/ \E g \in {1}, d \in DocumentIds : meshSdkRequester(g, d, "{}")
    \/ \E k \in 1..MaxInflight : CallPipeline(k)
    \/ \E k \in 1..MaxInflight : CallSettles(k)
    \/ \E k \in 1..MaxInflight, r \in GatewayResults : RequesterExecuteSettles(k, r)
    \/ \E k \in 1..MaxInflight, r \in GatewayResults : RequesterSubscribeSettles(k, r)
    \/ RequesterDone

SpecShared == SharedInit /\ [][SharedNext]_vars

\* ---------------------------------------------------------------- claims
SomeCaught == \E i \in Sources : handler[i] = "caught"

\* C1: if the handler of any source fails, getMesh fails, and it rejects
\* only after every handler attempt has completed: while some handler is
\* still pending nothing has been thrown, a caught failure never lets
\* getMesh get past the allSettled barrier other than by rejecting, and
\* once all have settled with a failure the next step is the rejection.
C1_FailureOnlyAfterAllSettled ==
    /\ []((\E i \in Sources : handler[i] = "pending") => thrown = <<>>)
    /\ [](SomeCaught => pc \in {"allSettled", "rejected"})
    /\ [][(SomeCaught /\ pc = "allSettled" /\ pc' # pc)
            => (pc' = "rejected" /\ \A i \in Sources : handler[i] # "pending")]_vars

\* a failing source and a succeeding source both completed before the
\* rejection was reported
C1_Witness ==
    /\ pc = "rejected"
    /\ thrown = <<"SchemasCouldntBeGenerated">>
    /\ \E i, j \in Sources : handler[i] = "caught" /\ handler[j] = "fulfilled"

\* C2: when every source loads, the rawSources handed to the merger hold
\* one record per configured source in configuration order.
C2_RawSourcesInConfigurationOrder ==
    (pc \in {"merged", "returned"})
        => /\ Len(rawSources) = NumSources
           /\ \A k \in 1..Len(rawSources) : rawSources[k].name = k
           /\ mergerCalls = <<rawSources>>

\* C3: when one or more handlers fail, getMesh reports exactly one error,
\* the merger is never invoked, no in-context SDK is built and no mesh
\* instance is returned.
C3_FailureHaltsConstruction ==
    SomeCaught =>
        /\ Len(thrown) <= 1
        /\ (pc # "allSettled" => thrown = <<"SchemasCouldntBeGenerated">>)
        /\ mergerCalls = <<>>
        /\ ~unifiedSchema.built
        /\ meshContext = {}
        /\ ~instance

\* two sources failed and getMesh has rejected
C3_Witness ==
    /\ pc = "rejected"
    /\ \E i, j \in Sources : i # j /\ handler[i] = "caught" /\ handler[j] = "caught"
    /\ Len(thrown) = 1

\* ------------------------------------------------ claims on the callable
CompositeField(f) == f.type[Len(f.type)] \notin {"Int", "String"}
Supplied(v) == v.form # "undefined"
ZeroSelections(p) ==
    \A k \in 1..Len(p.info.fieldNodes) :
        \/ p.info.fieldNodes[k].selectionSet.kind = "null"
        \/ p.info.fieldNodes[k].selectionSet.selections = <<>>

\* C4: a callable of a composite-return field, invoked with an info whose
\* field nodes carry no selection at all (or with no info) and without a
\* selectionSet, throws an error naming the source, the root type and the
\* field, and the throwing call issues no delegation call.
C4_MissingSelectionSetThrows ==
    /\ [](( /\ sdkCall.made
            /\ CompositeField(sdkCall.field)
            /\ ZeroSelections(sdkCall.params)
            /\ ~Supplied(sdkCall.params.selectionSet) )
           => ( /\ sdkCall.threw
                /\ sdkCall.fn = "none"
                /\ sdkCall.message = [source |-> sdkCall.source,
                                      rootType |-> sdkCall.field.rootType,
                                      fieldName |-> sdkCall.field.fieldName] ))
    /\ [][(sdkCall'.made /\ ~sdkCall.made /\ sdkCall'.threw)
            => ( /\ delegateToSchemaCalls' = delegateToSchemaCalls
                 /\ batchDelegateToSchemaCalls' = batchDelegateToSchemaCalls )]_vars

\* the error was thrown for a caller's info with two field nodes, the
\* second with an empty selection set
C4_Witness ==
    /\ sdkCall.made
    /\ sdkCall.threw
    /\ sdkCall.params.info.given
    /\ Len(sdkCall.params.info.fieldNodes) = 2
    /\ sdkCall.params.info.fieldNodes[2].selectionSet.kind = "SelectionSet"
    /\ sdkCall.message.fieldName = "addUser"

\* C9 as stated: without a selectionSet the request carries the declared
\* return type, with a selectionSet in any form it carries no override.
C9_NoOverrideWithAnySelectionSet ==
    (sdkCall.made /\ ~sdkCall.threw) =>
        /\ (~Supplied(sdkCall.params.selectionSet)
              => ( /\ sdkCall.options.common.hasReturnType
                   /\ sdkCall.options.common.returnType = sdkCall.field.type ))
        /\ (Supplied(sdkCall.params.selectionSet)
              => ~sdkCall.options.common.hasReturnType)

\* C9 amended: the request carries the field's declared return type unless
\* the selectionSet is a function; only the function form drops the override.
C9_OverrideUnlessFunction ==
    (sdkCall.made /\ ~sdkCall.threw) =>
        /\ (sdkCall.options.common.hasReturnType
              <=> sdkCall.params.selectionSet.form # "function")
        /\ (sdkCall.options.common.hasReturnType
              => sdkCall.options.common.returnType = sdkCall.field.type)

\* a call with a textual selectionSet was delegated with the override
C9_Witness ==
    /\ sdkCall.made
    /\ ~sdkCall.threw
    /\ sdkCall.params.selectionSet = Str("{ id }")
    /\ sdkCall.options.common.hasReturnType
    /\ sdkCall.options.common.returnType = <<"NonNull", "User">>

\* C10: batched delegation is used exactly when both key and argsFromKeys
\* are supplied, otherwise single delegation; every call that does not
\* throw issues exactly one of the two; single mode attaches args, batched
\* mode attaches key, argsFromKeys and valuesFromResults instead.
C10_DispatchMode ==
    (sdkCall.made /\ ~sdkCall.threw) =>
        /\ sdkCall.fn \in {"delegateToSchema", "batchDelegateToSchema"}
        /\ (sdkCall.fn = "batchDelegateToSchema"
              <=> (Supplied(sdkCall.params.key) /\ Supplied(sdkCall.params.argsFromKeys)))
        /\ (sdkCall.fn = "delegateToSchema"
              => ( /\ sdkCall.options.args = sdkCall.params.args
                   /\ sdkCall.options.key = Absent ))
        /\ (sdkCall.fn = "batchDelegateToSchema"
              => ( /\ sdkCall.options.args = Absent
                   /\ sdkCall.options.key = sdkCall.params.key
                   /\ sdkCall.options.argsFromKeys = sdkCall.params.argsFromKeys
                   /\ sdkCall.options.valuesFromResults = sdkCall.params.valuesFromResults ))

\* -------------------------------------- claims on the execution pipeline
\* C6: within a gateway the same context identity always resolves to the
\* same bound pipeline, every identity gets a pipeline of its own even
\* when two context objects hold equal values, and the context an
\* execution sees is built from the context object passed to that call.
C6_PipelinePerContextIdentity ==
    /\ [](\A g \in Gateways, c \in ContextRefs :
            \/ envelopedCache[g].byContext[c] = NoPipeline
            \/ envelopedCache[g].byContext[c]
                  = [plugins |-> g, initialContext |-> c, serial |-> 1])
    /\ [](\A k \in 1..MaxInflight :
            calls[k].stage # "idle" =>
              /\ calls[k].pipeline.initialContext = calls[k].contextValue
              /\ calls[k].pipeline
                    = envelopedCache[calls[k].gateway].byContext[calls[k].contextValue])
    /\ [](\A k \in 1..MaxInflight :
            calls[k].stage = "running" =>
              /\ calls[k].args.contextValue.initialContext = calls[k].contextValue
              /\ calls[k].args.contextValue.value
                    = (IF calls[k].contextValue \in ContextIds
                       THEN contexts[calls[k].contextValue] ELSE "{}")
              /\ calls[k].args.contextValue.meshContext = calls[k].gateway)
    /\ [][\A g \in Gateways, c \in ContextRefs :
            envelopedCache[g].byContext[c] # NoPipeline
              => envelopedCache'[g].byContext[c] = envelopedCache[g].byContext[c]]_vars

\* two context objects of equal value each have their own pipeline, and
\* both are in use by running calls
C6_Witness ==
    /\ contexts[1] # Free
    /\ contexts[1] = contexts[2]
    /\ \E g \in Gateways :
          /\ envelopedCache[g].byContext[1] # NoPipeline
          /\ envelopedCache[g].byContext[2] # NoPipeline
          /\ envelopedCache[g].byContext[1] # envelopedCache[g].byContext[2]
    /\ calls[1].stage = "running" /\ calls[1].contextValue = 2
    /\ calls[2].stage = "running" /\ calls[2].contextValue = 1

\* ---------------------------------------------- claims on the requester
HasErrors(result) == result.errors.present /\ result.errors.list # <<>>

\* C7: the requester collapses a single execution result to exactly one of
\* two outcomes: a returned aggregate error built from the error list when
\* that list is non-empty, otherwise the data payload; never both, never a
\* raw result; on the execute path and on the single-result subscribe path.
C7_ResultCollapsedToDataOrError ==
    request.stage = "returned" =>
        /\ request.fn \in {"execute", "subscribe"}
        /\ request.returned.kind \in {"AggregateError", "value"}
        /\ (HasErrors(request.result)
              => request.returned = [kind |-> "AggregateError",
                                     errors |-> request.result.errors.list])
        /\ (~HasErrors(request.result)
              => request.returned = [kind |-> "value", value |-> request.result.data])

\* a single subscribe result with data and two errors came back as one
\* aggregate error
C7_Witness ==
    /\ request.stage = "returned"
    /\ request.fn = "subscribe"
    /\ request.result.data = "d1"
    /\ request.result.errors.list = <<"e1", "e2">>
    /\ request.returned.kind = "AggregateError"

\* C8 as stated: the k-th emitted element comes from the k-th upstream
\* result and is either {data: value} or an aggregate error.
C8_EmitsDataWrapperOrError ==
    request.stage = "iterating" =>
        /\ Len(request.emitted) = Len(request.upstream)
        /\ \A k \in 1..Len(request.emitted) :
              \/ request.emitted[k] = [kind |-> "AggregateError",
                                       errors |-> request.upstream[k].errors.list]
              \/ request.emitted[k] = [kind |-> "ExecutionResult", errors |-> NoErrors,
                                       data |-> request.upstream[k].data]

\* C8 amended: the k-th emitted element comes from the k-th upstream result
\* only, in order, and is either that result's data payload itself or an
\* aggregate error of its error list, never a raw result; an element with
\* errors does not end the sequence.
C8_EmitsPayloadOrError ==
    /\ [](request.stage = "iterating" =>
            /\ Len(request.emitted) = Len(request.upstream)
            /\ \A k \in 1..Len(request.emitted) :
                  /\ request.emitted[k].kind # "ExecutionResult"
                  /\ (HasErrors(request.upstream[k])
                        => request.emitted[k] = [kind |-> "AggregateError",
                               errors |-> request.upstream[k].errors.list])
                  /\ (~HasErrors(request.upstream[k])
                        => request.emitted[k] = [kind |-> "value",
                               value |-> request.upstream[k].data]))
    /\ [][(request.stage = "iterating" /\ request'.stage = "iterating"
             /\ Len(request'.emitted) > Len(request.emitted))
            => ( /\ ~request'.done
                 /\ SubSeq(request'.emitted, 1, Len(request.emitted)) = request.emitted
                 /\ SubSeq(request'.upstream, 1, Len(request.upstream)) = request.upstream )]_vars

\* an element with errors was emitted and the next element followed it
C8_Witness ==
    /\ request.stage = "iterating"
    /\ request.document = 2
    /\ Len(request.emitted) = 2
    /\ request.emitted[1].kind = "AggregateError"
    /\ request.emitted[2] = [kind |-> "value", value |-> "d1"]

\* C11: in every gateway getMesh has returned, a source's callables have a
\* delegation target: with stitchingInfo it is the subschema of the first
\* subschemaMap entry carrying the source's name, and some entry does carry
\* it (a source without one never gets into a returned gateway); without
\* stitchingInfo it is the raw source itself.
C11_TargetResolvedAtBuildTime ==
    instance =>
        \A e \in meshContext :
            IF unifiedSchema.stitchingInfo
            THEN /\ e.target.kind = "subschema"
                 /\ e.target.entry \in 1..Len(unifiedSchema.subschemaMap)
                 /\ unifiedSchema.subschemaMap[e.target.entry] = e.name
                 /\ \A j \in 1..(e.target.entry - 1) :
                        unifiedSchema.subschemaMap[j] # e.name
            ELSE e.target = [kind |-> "rawSource", name |-> e.name, entry |-> 0]

\* C12: once getMesh has returned, every raw source has an entry of the
\* mesh context under its name, holding exactly one callable for each field
\* of each root operation type its schema has and none for a root type it
\* lacks; and from then on no step of an in-context callable, of execute,
\* subscribe or the requester, or of destroy changes the mesh context.
C12_MeshContextBuiltThenFrozen ==
    /\ [](instance =>
            /\ Cardinality(meshContext) = Len(rawSources)
            /\ \A k \in 1..Len(rawSources) :
                  \E e \in meshContext :
                     /\ e.name = rawSources[k].name
                     /\ \A f \in RootFields :
                           f \in e.sdk <=> RootTypeExists(e.name, f.rootType)
                     /\ e.sdk \subseteq RootFields)
    /\ [][instance => meshContext' = meshContext]_vars

\* a gateway whose sources differ in the root types they have has served a
\* requester call to its end
C12_Witness ==
    /\ instance
    /\ Cardinality(meshContext) = NumSources
    /\ \E e1, e2 \in meshContext : e1.sdk # e2.sdk
    /\ request.stage = "returned"

\* C13: what the pipeline's execute / subscribe is handed is what it would be
\* handed with no memoization at all, a pipeline built afresh from the
\* gateway's plugins and the call's context on every call: the context is
\* the call's own context object extended with the gateway's mesh context,
\* the schema is the gateway's, the document is the caller's (parsed when it
\* came as text), root value and variables are the caller's or the defaults,
\* and the operation name is the caller's.
C13_MemoizationTransparent ==
    \A k \in 1..MaxInflight :
        calls[k].stage = "running" =>
            LET c == calls[k].contextValue
                in == calls[k].input
            IN /\ calls[k].args.contextValue
                     = [ initialContext |-> c,
                         value |-> IF c \in ContextIds THEN contexts[c] ELSE "{}",
                         meshContext |-> calls[k].gateway ]
               /\ calls[k].args.schema = calls[k].gateway
               /\ calls[k].args.rest.document
                     = (IF in.documentOrSDL.form = "string"
                        THEN [form |-> "DocumentNode", text |-> in.documentOrSDL.text]
                        ELSE in.documentOrSDL)
               /\ calls[k].args.rest.rootValue
                     = (IF in.rootValue = Undefined
                        THEN Obj("EMPTY_ROOT_VALUE") ELSE in.rootValue)
               /\ calls[k].args.rest.variableValues
                     = (IF in.variableValues = Undefined
                        THEN Obj("EMPTY_VARIABLES_VALUE") ELSE in.variableValues)
               /\ calls[k].args.rest.operationName = in.operationName

\* two calls with the same context object and different other arguments
\* are running: the later one got its pipeline from the cache
C13_Witness ==
    /\ calls[1].stage = "running" /\ calls[2].stage = "running"
    /\ calls[1].contextValue = 1 /\ calls[2].contextValue = 1
    /\ calls[1].input # calls[2].input
    /\ calls[1].fn # calls[2].fn

\* C14: the selections are summed over every field node of info. A call
\* that delegates for a composite-return field with a sum of zero (it was
\* given a selectionSet, or it would have thrown) passes on an info whose
\* first field node selects __typename and is otherwise the caller's first
\* node, whose further field nodes are the caller's, and whose other fields
\* are the caller's; a call with a sum above zero, or for a leaf-return
\* field, passes on the caller's info as it is.
C14_InfoPatchedOnlyWhenNothingSelected ==
    (sdkCall.made /\ ~sdkCall.threw) =>
        LET orig == InfoOf(sdkCall.field, sdkCall.params)
            passed == sdkCall.options.common.info
        IN IF CompositeField(sdkCall.field) /\ ZeroSelections(sdkCall.params)
           THEN /\ sdkCall.params.selectionSet \notin {Undefined, Str("")}
                /\ Len(passed.fieldNodes) >= 1
                /\ Len(passed.fieldNodes) >= Len(orig.fieldNodes)
                /\ Len(passed.fieldNodes) <= Len(orig.fieldNodes) + 1
                /\ passed.fieldNodes[1].selectionSet.kind = "SelectionSet"
                /\ \E j \in DOMAIN passed.fieldNodes[1].selectionSet.selections :
                       passed.fieldNodes[1].selectionSet.selections[j] = "__typename"
                /\ (Len(orig.fieldNodes) >= 1 =>
                       /\ Len(passed.fieldNodes) = Len(orig.fieldNodes)
                       /\ passed.fieldNodes[1].kind = orig.fieldNodes[1].kind)
                /\ \A k \in 2..Len(orig.fieldNodes) :
                       passed.fieldNodes[k] = orig.fieldNodes[k]
                /\ [passed EXCEPT !.fieldNodes = <<>>] = [orig EXCEPT !.fieldNodes = <<>>]
           ELSE passed = orig

\* a delegation for a composite-return field whose caller's info has two
\* field nodes without a single selection: the first node was patched, the
\* second, with its empty selection set, was passed on as it came
C14_Witness ==
    /\ sdkCall.made
    /\ ~sdkCall.threw
    /\ sdkCall.field.fieldName = "user"
    /\ sdkCall.params.info.given
    /\ Len(sdkCall.params.info.fieldNodes) = 2
    /\ sdkCall.params.info.fieldNodes[1].selectionSet = NullSelectionSet
    /\ sdkCall.params.info.fieldNodes[2].selectionSet = SelectionSetOf(0)
    /\ sdkCall.options.common.info.fieldNodes[1].selectionSet = TypenameSelectionSet
    /\ sdkCall.options.common.info.fieldNodes[2].selectionSet = SelectionSetOf(0)

\* C15: a request the requester accepts makes exactly one call: to subscribe
\* when the document's only operation is a subscription, to execute when
\* it is a query or a mutation, and never to the other of the two; and the
\* kind recorded for a document is the kind of its operation and stays what
\* it is on every later request with that document.
C15_RoutedByOperationKind ==
    /\ [][\A k \in 1..MaxInflight :
            (calls[k] = Idle /\ calls'[k] # Idle /\ calls'[k].via = "requester")
              => LET d == DocumentIdOf(calls'[k].input.documentOrSDL)
                 IN /\ Len(Documents[d]) = 1
                    /\ calls'[k].fn = (IF Documents[d][1] = "subscription"
                                       THEN "subscribe" ELSE "execute")
                    /\ \A j \in 1..MaxInflight : j # k => calls'[j] = calls[j]]_vars
    /\ [](\A k \in 1..MaxInflight :
            (calls[k] # Idle /\ calls[k].via = "requester")
              => (calls[k].fn = "subscribe"
                    <=> Documents[DocumentIdOf(calls[k].input.documentOrSDL)]
                           = <<"subscription">>))
    /\ [](Cardinality({ k \in 1..MaxInflight : calls[k] # Idle }) <= 1)
    /\ [](\A d \in DOMAIN operationTypeCache :
            /\ Len(Documents[d]) = 1
            /\ operationTypeCache[d] = Documents[d][1])
    /\ [][\A d \in DOMAIN operationTypeCache :
            /\ d \in DOMAIN operationTypeCache'
            /\ operationTypeCache'[d] = operationTypeCache[d]]_vars

\* the second request with the same subscription document, its kind taken
\* from the cache, has reached the pipeline's subscribe
C15_Witness ==
    /\ DOMAIN operationTypeCache = {2}
    /\ contexts[2] # Free
    /\ \E k \in 1..MaxInflight :
          /\ calls[k].stage = "running"
          /\ calls[k].via = "requester"
          /\ calls[k].fn = "subscribe"
          /\ calls[k].contextValue = 2

\* how often a delegation applies valuesFromResults to what comes back
TimesValuesFromResultsApplied(options) ==
    (IF options.transforms.resultTransformer = "valuesFromResults" THEN 1 ELSE 0)
    + (IF options.valuesFromResults = Obj("function") THEN 1 ELSE 0)

\* C16: a delegation made with a selectionSet (a non-empty one) carries the
\* grafting query transform for the field's path; in single delegation that
\* transform post-processes the result with valuesFromResults when one was
\* passed and with the identity otherwise, and valuesFromResults is no
\* option of the request; in batched delegation the transform post-processes
\* with the identity and valuesFromResults is the batch's own option; so it
\* is applied at most once either way. A delegation made without a
\* selectionSet carries no query transform.
C16_ResultTransformedAtMostOnce ==
    (sdkCall.made /\ ~sdkCall.threw) =>
        LET o == sdkCall.options
            q == sdkCall.params
            withSelectionSet == q.selectionSet \notin {Undefined, Str("")}
        IN /\ (withSelectionSet =>
                  /\ o.transforms.attached
                  /\ o.transforms.path = <<sdkCall.field.fieldName>>
                  /\ o.transforms.selectionSetFactory = q.selectionSet)
           /\ (~withSelectionSet =>
                  /\ ~o.transforms.attached
                  /\ o.transforms.resultTransformer = "none")
           /\ (sdkCall.fn = "delegateToSchema" =>
                  /\ o.valuesFromResults = Absent
                  /\ (withSelectionSet =>
                        o.transforms.resultTransformer
                          = (IF q.valuesFromResults = Obj("function")
                             THEN "valuesFromResults" ELSE "identical")))
           /\ (sdkCall.fn = "batchDelegateToSchema" =>
                  /\ o.valuesFromResults = q.valuesFromResults
                  /\ (withSelectionSet => o.transforms.resultTransformer = "identical"))
           /\ TimesValuesFromResultsApplied(o) <= 1

\* a batched delegation with a selectionSet and a valuesFromResults
C16_Witness ==
    /\ sdkCall.made
    /\ ~sdkCall.threw
    /\ sdkCall.fn = "batchDelegateToSchema"
    /\ sdkCall.params.selectionSet = Obj("DocumentNode")
    /\ sdkCall.params.valuesFromResults = Obj("function")
    /\ sdkCall.options.transforms.attached
    /\ TimesValuesFromResultsApplied(sdkCall.options) = 1

\* C17: with calls overlapping, each key of the shared caches maps to one
\* value that is a function of the key alone (the pipeline of that gateway
\* and that context object, the kind of that document's operation), an
\* entry once made is never replaced, so no caller's earlier answer is
\* changed by a later population, and every call in flight holds the entry
\* of its own key: the pipeline of its own context, the routing of its own
\* document.
C17_SharedCachesSafe ==
    /\ [](\A g \in Gateways, c \in ContextRefs :
            envelopedCache[g].byContext[c]
               \in {NoPipeline, [plugins |-> g, initialContext |-> c, serial |-> 1]})
    /\ [](\A d \in DOMAIN operationTypeCache :
            /\ Len(Documents[d]) = 1
            /\ operationTypeCache[d] = Documents[d][1])
    /\ [][/\ \A g \in Gateways, c \in ContextRefs :
              envelopedCache[g].byContext[c] # NoPipeline
                => envelopedCache'[g].byContext[c] = envelopedCache[g].byContext[c]
          /\ \A d \in DOMAIN operationTypeCache :
              /\ d \in DOMAIN operationTypeCache'
              /\ operationTypeCache'[d] = operationTypeCache[d]]_vars
    /\ [](\A k \in 1..MaxInflight :
            calls[k] # Idle =>
              /\ calls[k].pipeline
                    = [ plugins |-> calls[k].gateway,
                        initialContext |-> calls[k].contextValue, serial |-> 1 ]
              /\ calls[k].pipeline
                    = envelopedCache[calls[k].gateway].byContext[calls[k].contextValue]
              /\ (calls[k].via = "requester" =>
                    LET d == DocumentIdOf(calls[k].input.documentOrSDL)
                    IN /\ d \in DOMAIN operationTypeCache
                       /\ calls[k].fn = (IF Documents[d] = <<"subscription">>
                                         THEN "subscribe" ELSE "execute")))

\* requester calls for a query document and for a subscription document
\* are in flight together, next to pipelines built for direct calls
C17_Witness ==
    /\ calls[1] # Idle /\ calls[2] # Idle
    /\ calls[1].via = "requester" /\ calls[2].via = "requester"
    /\ calls[1].fn = "execute" /\ calls[2].fn = "subscribe"
    /\ calls[1].stage = "running"
    /\ DOMAIN operationTypeCache = {1, 2}
    /\ envelopedCache[1].byContext[EMPTY_CONTEXT_VALUE(1)] # NoPipeline

\* C18: a callable throws only when the field's return type is composite,
\* the info it sees carries no selection in any field node, and no
\* selectionSet came with the call (none at all, or an empty text, which
\* selects nothing); so a leaf-return field never throws, and neither does
\* a call whose info carries a selection. What it throws is the
\* missing-selectionSet error of that source, root type and field.
C18_ThrowsOnlyWhenNothingToSelect ==
    (sdkCall.made /\ sdkCall.threw) =>
        /\ CompositeField(sdkCall.field)
        /\ ZeroSelections(sdkCall.params)
        /\ sdkCall.params.selectionSet \in {Undefined, Str("")}
        /\ sdkCall.message = [ source |-> sdkCall.source,
                               rootType |-> sdkCall.field.rootType,
                               fieldName |-> sdkCall.field.fieldName ]

\* a composite-return field called without a selectionSet and with an info
\* whose only selection sits in its second field node: it delegates
C18_Witness ==
    /\ sdkCall.made
    /\ ~sdkCall.threw
    /\ sdkCall.field.fieldName = "addUser"
    /\ sdkCall.params.selectionSet = Undefined
    /\ sdkCall.params.info.given
    /\ Len(sdkCall.params.info.fieldNodes) = 2
    /\ sdkCall.params.info.fieldNodes[1].selectionSet = NullSelectionSet
    /\ sdkCall.params.info.fieldNodes[2].selectionSet = SelectionSetOf(1)
    /\ sdkCall.fn = "delegateToSchema"

\* C19: a callable leaves the caller's info and args as they were (a patch
\* goes into a copy), writes nothing of the gateway's state, and issues at
\* most the one delegation of its own; the request it builds is made of the
\* target, operation and field captured when the gateway was built and of
\* the arguments of this very invocation, whatever was called before.
C19_CallableStateless ==
    /\ [](sdkCall.made =>
            /\ sdkCall.after.info = sdkCall.params.info
            /\ sdkCall.after.args = sdkCall.params.args)
    /\ [](( sdkCall.made /\ ~sdkCall.threw) =>
            /\ \E e \in meshContext :
                  /\ e.name = sdkCall.source
                  /\ sdkCall.field \in e.sdk
                  /\ sdkCall.options.common.schema = e.target
            /\ sdkCall.options.common.operation = sdkCall.field.operation
            /\ sdkCall.options.common.fieldName = sdkCall.field.fieldName
            /\ (sdkCall.fn = "delegateToSchema" =>
                  sdkCall.options.args = sdkCall.params.args)
            /\ (sdkCall.fn = "batchDelegateToSchema" =>
                  /\ sdkCall.options.key = sdkCall.params.key
                  /\ sdkCall.options.argsFromKeys = sdkCall.params.argsFromKeys))
    /\ [][(~sdkCall.made /\ sdkCall'.made) =>
            /\ UNCHANGED <<loadVars, execVars, requestVars, pubsubVars>>
            /\ delegateToSchemaCalls' + batchDelegateToSchemaCalls'
                  = delegateToSchemaCalls + batchDelegateToSchemaCalls
                    + (IF sdkCall'.threw THEN 0 ELSE 1)]_vars

\* a second invocation, after an earlier delegation, was given the caller's
\* own info without a selection and passed a patched copy on
C19_Witness ==
    /\ sdkCall.made
    /\ ~sdkCall.threw
    /\ delegateToSchemaCalls + batchDelegateToSchemaCalls = 2
    /\ sdkCall.params.info.given
    /\ Len(sdkCall.params.info.fieldNodes) = 1
    /\ sdkCall.options.common.info.fieldNodes # sdkCall.params.info.fieldNodes
    /\ sdkCall.after.info = sdkCall.params.info

\* C20: gateways share no pipeline. A context object passed to two gateways
\* has a pipeline in each, built from that gateway's own plugins; what a
\* running call is handed is the mesh context and the schema of the gateway
\* it was made on; a call that leaves the context out runs on the default
\* context object of its gateway, which no other gateway has, and all such
\* calls of one gateway share one pipeline.
C20_PipelinesPerGateway ==
    /\ \A g1, g2 \in Gateways : \A c \in ContextRefs :
          ( /\ g1 # g2
            /\ envelopedCache[g1].byContext[c] # NoPipeline
            /\ envelopedCache[g2].byContext[c] # NoPipeline )
          => /\ envelopedCache[g1].byContext[c] # envelopedCache[g2].byContext[c]
             /\ envelopedCache[g1].byContext[c].plugins = g1
             /\ envelopedCache[g2].byContext[c].plugins = g2
    /\ \A k \in 1..MaxInflight :
          calls[k] # Idle =>
             /\ calls[k].pipeline.plugins = calls[k].gateway
             /\ (calls[k].stage = "running" =>
                   /\ calls[k].args.contextValue.meshContext = calls[k].gateway
                   /\ calls[k].args.schema = calls[k].gateway)
             /\ \A g \in Gateways :
                   calls[k].contextValue = EMPTY_CONTEXT_VALUE(g) => g = calls[k].gateway
    /\ \A k, j \in 1..MaxInflight :
          ( /\ calls[k] # Idle /\ calls[j] # Idle
            /\ calls[k].gateway = calls[j].gateway
            /\ calls[k].contextValue = EMPTY_CONTEXT_VALUE(calls[k].gateway)
            /\ calls[j].contextValue = EMPTY_CONTEXT_VALUE(calls[j].gateway) )
          => calls[k].pipeline = calls[j].pipeline
    /\ \A g1, g2 \in Gateways :
          g1 # g2 => EMPTY_CONTEXT_VALUE(g1) # EMPTY_CONTEXT_VALUE(g2)

\* one context object is in use by running calls on two gateways, each on
\* a pipeline of its own, after each gateway also served a call without
\* a context
C20_Witness ==
    /\ calls[1].stage = "running" /\ calls[2].stage = "running"
    /\ calls[1].gateway = 1 /\ calls[2].gateway = 2
    /\ calls[1].contextValue = 1 /\ calls[2].contextValue = 1
    /\ calls[1].pipeline # calls[2].pipeline
    /\ envelopedCache[1].byContext[EMPTY_CONTEXT_VALUE(1)] # NoPipeline
    /\ envelopedCache[2].byContext[EMPTY_CONTEXT_VALUE(2)] # NoPipeline

\* a document that defines no operation, or more than one
InvalidDocument(d) == Len(Documents[d]) # 1

\* C21: a request with a document that has no single operation is rejected
\* with 'Must provide document with a valid operation' and calls neither
\* execute nor subscribe; nothing is recorded for such a document, so
\* whenever a request can be made, one with that document is rejected again.
C21_InvalidDocumentRejectedEveryTime ==
    /\ [](request.stage = "rejected" =>
            /\ InvalidDocument(request.document)
            /\ request.error = "Must provide document with a valid operation")
    /\ [][request'.stage = "rejected" =>
            /\ calls' = calls
            /\ operationTypeCache' = operationTypeCache]_vars
    /\ [](\A k \in 1..MaxInflight :
            (calls[k] # Idle /\ calls[k].via = "requester")
              => ~InvalidDocument(DocumentIdOf(calls[k].input.documentOrSDL)))
    /\ [](\A d \in DocumentIds :
            InvalidDocument(d) =>
              /\ d \notin DOMAIN operationTypeCache
              /\ (request.stage = "idle" =>
                    /\ ENABLED RequesterRejects(d)
                    /\ \A g \in Gateways, o \in {"{}", "user=bob"} :
                          ~ENABLED meshSdkRequester(g, d, o)))

\* the request with a document of two operations is rejected after two
\* requests with valid documents were served and their kinds cached
C21_Witness ==
    /\ request.stage = "rejected"
    /\ request.document = 5
    /\ DOMAIN operationTypeCache = {1, 2}
    /\ \A k \in 1..MaxInflight : calls[k] = Idle
====
